---- MODULE Spec2Model ----
(***************************************************************************)
(* Live-data synchronisation engine of the song-request application:       *)
(* EnhancedRealtimeManager (src/utils/realtimeManager.ts), the request     *)
(* sync hook (src/hooks/useRequestSync.ts) and the optimistic queue view   *)
(* (useUltraFastRequestSync / UltraFastQueueView).                         *)
(*                                                                         *)
(* The JavaScript event loop is modelled by interleaving: every action is  *)
(* one macrotask (a timer callback, a channel callback, a promise          *)
(* continuation after a real I/O await, or a call made by a consumer).     *)
(***************************************************************************)
EXTENDS Integers, Sequences, FiniteSets, Bags, TLC

----------------------------------------------------------------------------
(* Bounds of the model *)

\* number of realtime channels that may ever be created (nanoid ids)
MaxChannels == 2
\* number of heartbeat pings in flight at a time
MaxPings == 1
\* number of reconnect() calls awaiting their ping at a time
MaxManualReconnects == 1
\* number of attemptReconnection timers pending at a time
MaxReconnectTimers == 5
\* number of times init() may initialise the manager (destroy() in between)
MaxInits == 2
\* the time (ms) up to which the clock of the coalescer advances
MaxDebounceClock == 600
\* number of changes of a table that are followed to the consumer callbacks
MaxChanges == 2

----------------------------------------------------------------------------
(* Program constants of EnhancedRealtimeManager *)

maxReconnectAttempts == 5
reconnectDelay == 1000
DebounceHigh == 100
DebounceNormal == 250
DebounceLow == 500
ChannelRetryLimit == 3
ChannelRetryBase == 2000

priorityDebounceDelays(p) ==
    CASE p = "high"   -> DebounceHigh
      [] p = "normal" -> DebounceNormal
      [] p = "low"    -> DebounceLow

highPriorityTables == {"requests", "requesters"}

\* 2^n, as Math.pow(2, n) on small non-negative integers
RECURSIVE Pow2(_)
Pow2(n) == IF n <= 0 THEN 1 ELSE 2 * Pow2(n - 1)

----------------------------------------------------------------------------
(* Input domains *)

\* the priority argument of createSubscription; NoPriority is "undefined"
NoPriority == "none"
\* the (table, priority) arguments consumers pass to createSubscription: one
\* for each priority class the manager can determine
SubscriptionArgs ==
    { <<"requests", NoPriority>>, <<"set_lists", NoPriority>>,
      <<"set_lists", "low">> }
\* consumer callbacks, by identity
Callbacks == {"cbA"}
\* connection listeners, by identity: lsA only records the status it is
\* given; lsB records it and then calls removeConnectionListener(lsA)
Listeners == {"lsA", "lsB"}
\* payloads of change events
Payloads == {"p1", "p2"}

----------------------------------------------------------------------------
(* JavaScript Map helpers *)

MapGet(m, k, default) == IF k \in DOMAIN m THEN m[k] ELSE default
MapSet(m, k, v) == [x \in DOMAIN m \cup {k} |-> IF x = k THEN v ELSE m[x]]
MapDelete(m, k) == [x \in DOMAIN m \ {k} |-> m[x]]
EmptyMap == [x \in {} |-> 0]

\* a JavaScript Set is a sequence without repetitions (insertion order)
Range(seq) == {seq[i] : i \in DOMAIN seq}
SetAdd(seq, x) == IF x \in Range(seq) THEN seq ELSE Append(seq, x)
SetDelete(seq, x) == SelectSeq(seq, LAMBDA y : y # x)

----------------------------------------------------------------------------
(* State *)

VARIABLES
    mgr,    \* the EnhancedRealtimeManager singleton, the channels and timers
            \* it created, and what its consumers observed
    rs,     \* one instance of the useRequestSync hook, its network queries,
            \* the cache service and the clock
    sl,     \* one instance of the useSetListSync hook
    qv,     \* one UltraFastQueueView with its useUltraFastRequestSync hook
            \* and the request list of the data service
    rv,     \* one QueueView with its queue reset, the requests it is given
            \* and the request table of the data service
    hc      \* one instance of the useConnectionHealth hook and the
            \* reconnect() calls it started

vars == <<mgr, rs, sl, qv, rv, hc>>

\* the variables the manager's own actions leave alone
others == <<rs, sl, qv, rv, hc>>
\* the variables the actions of useRequestSync leave alone, the manager aside
besidesRs == <<sl, qv, rv, hc>>
\* the variables the actions of useSetListSync leave alone, the manager aside
besidesSl == <<rs, qv, rv, hc>>
\* the variables the actions of the queue view leave alone
besidesQv == <<mgr, rs, sl, rv, hc>>
\* the variables the actions of the resetting queue view leave alone
besidesRv == <<mgr, rs, sl, qv, hc>>
\* the variables the actions of useConnectionHealth leave alone
besidesHc == <<mgr, rs, sl, qv, rv>>

\* the channel id createSubscription generates next (`${table}_${nanoid(6)}`)
NextChannelId(s) == Len(s.channels) + 1

ChannelIds(s) == 1..Len(s.channels)

\* per-channel observations of the coalescer (history, not program state)
\* lastEvent: the payload of the last event the channel delivered;
\* lastEventAt: the time of that event;
\* open: a burst of events has started and was neither delivered nor cancelled;
\* merged: the current or last burst had more than one event;
\* delivered: the last burst ended with a call of the callback;
\* extraCall: the callback was invoked although no burst was open;
\* stale: the callback was invoked with a payload other than the last event's;
\* lastChange: the number of the table change the last event reported (0 when
\* the changes of the table are not followed)
NoHistory ==
    [lastEvent |-> "none", lastEventAt |-> 0, open |-> FALSE, merged |-> FALSE,
     delivered |-> FALSE, extraCall |-> FALSE, stale |-> FALSE,
     lastChange |-> 0]

MgrInit ==
    [ \* fields of EnhancedRealtimeManager
      activeChannels |-> EmptyMap,
      connectionStatus |-> "disconnected",
      reconnectAttempts |-> 0,
      channelRetries |-> EmptyMap,
      heartbeatInterval |-> FALSE,
      connectionListeners |-> << >>,
      isInitialized |-> FALSE,
      updateTimeouts |-> EmptyMap,
      \* objects of the runtime the manager created
      now |-> 0,                   \* the clock setTimeout runs on (ms)
      channels |-> << >>,          \* supabase channels, by channel id
      updateTimers |-> {},         \* live coalescing timers
      retryTimers |-> EmptyBag,    \* live channel-retry timers
      reconnectTimers |-> EmptyBag,\* live attemptReconnection timers
      pings |-> 0,                 \* heartbeat queries in flight
      windowListeners |-> 0,       \* registered online/offline handler pairs
      removals |-> {},             \* removeSubscription calls awaiting unsubscribe
      manualReconnects |-> 0,      \* reconnect() calls awaiting the ping
      \* history
      hist |-> << >>,
      lastBroadcast |-> "none",
      heard |-> [l \in Listeners |-> "none"],
      snapshot |-> << >>,          \* the listeners registered when the last
                                   \* broadcast started (or the listener added last)
      audience |-> << >>,          \* the listeners invoked since then, in order
      removeCalled |-> {},
      changes |-> 0,               \* table changes followed so far
      calls |-> {},                \* <<consumer call, change>>: the callback of
                                   \* the consumer call was invoked for the change
      duplicate |-> FALSE,         \* a callback was invoked again for a change
      exhausted |-> FALSE,
      destroyed |-> FALSE ]

----------------------------------------------------------------------------
(* EnhancedRealtimeManager: methods as state transformers *)

\* removeConnectionListener(listener)
removeConnectionListener(s, listener) ==
    [s EXCEPT !.connectionListeners = SetDelete(@, listener)]

\* listener(status): the body of a listener, consumer code; a listener that
\* throws has seen the status and does nothing more
invokeListener(s, listener, status, throws) ==
    LET s1 == [s EXCEPT !.heard[listener] = status,
                        !.audience = Append(@, listener)]
    IN  IF listener = "lsB" /\ ~throws
        THEN removeConnectionListener(s1, "lsA")
        ELSE s1

\* connectionListeners.forEach(...) from entry i on: Set.prototype.forEach
\* walks the live Set, so an entry deleted before it is reached is skipped
RECURSIVE forEachListener(_, _, _)
forEachListener(s, i, status) ==
    IF i > Len(s.connectionListeners) THEN s
    ELSE LET s1 == invokeListener(s, s.connectionListeners[i], status, FALSE)
             gone == {j \in 1..i : s.connectionListeners[j]
                                      \notin Range(s1.connectionListeners)}
         IN  forEachListener(s1, i + 1 - Cardinality(gone), status)

\* notifyConnectionListeners(status)
notifyConnectionListeners(s, status) ==
    forEachListener([s EXCEPT !.lastBroadcast = status,
                              !.snapshot = s.connectionListeners,
                              !.audience = << >>],
                    1, status)

\* attemptReconnection(): the synchronous part, up to setTimeout
attemptReconnection(s) ==
    IF s.reconnectAttempts >= maxReconnectAttempts
    THEN notifyConnectionListeners([s EXCEPT !.exhausted = TRUE], "error")
    ELSE LET n == s.reconnectAttempts + 1
             delay == reconnectDelay * Pow2(n - 1)
         IN  notifyConnectionListeners(
                 [s EXCEPT !.reconnectAttempts = n,
                           !.reconnectTimers =
                               @ (+) SetToBag({[attempt |-> n, delay |-> delay]})],
                 "connecting")

\* handleConnectionFailure()
handleConnectionFailure(s) ==
    IF s.connectionStatus = "connected"
    THEN attemptReconnection(
             notifyConnectionListeners(
                 [s EXCEPT !.connectionStatus = "disconnected"], "disconnected"))
    ELSE s

\* priority || (highPriorityTables.has(table) ? 'high' : 'normal')
determinedPriority(table, priority) ==
    IF priority # NoPriority THEN priority
    ELSE IF table \in highPriorityTables THEN "high" ELSE "normal"

\* createSubscription(table, callback, filter, priority): a new channel with a
\* fresh id is created, its handlers installed, subscribe() called and the
\* configuration stored in activeChannels. root and chain are history: the
\* consumer call this channel descends from, and the number of channel-error
\* retries since that call or the last SUBSCRIBED status.
createSubscription(s, table, callback, priority, root, chain) ==
    LET channelId == NextChannelId(s)
        prio == determinedPriority(table, priority)
    IN  [s EXCEPT
            !.channels = Append(@, [table |-> table, callback |-> callback,
                                    priorityArg |-> priority, priority |-> prio,
                                    state |-> "joining",
                                    root |-> IF root = 0 THEN channelId ELSE root,
                                    chain |-> chain]),
            !.activeChannels = MapSet(@, channelId,
                                   [table |-> table, callback |-> callback,
                                    priority |-> prio]),
            !.hist = Append(@, NoHistory)]

\* createSubscription when supabase.channel(), channel.on() or
\* channel.subscribe() throws: the catch block notifies 'error' and rethrows,
\* nothing is stored
createSubscriptionThrows(s) == notifyConnectionListeners(s, "error")

\* reconnectAllChannels(): the entries of activeChannels are copied in
\* insertion order, the map is cleared (the old channels are not unsubscribed)
\* and one subscription is created per entry, with the stored priority and
\* no filter. An error thrown by createSubscription is caught and logged in
\* the loop; failing is the set of entries for which that happens.
RECURSIVE recreateChannels(_, _, _, _)
recreateChannels(s, old, ids, failing) ==
    IF ids = {} THEN s
    ELSE LET channelId == CHOOSE i \in ids : \A j \in ids : i <= j
             config == old[channelId]
         IN  recreateChannels(
                 IF channelId \in failing
                 THEN createSubscriptionThrows(s)
                 ELSE createSubscription(s, config.table, config.callback,
                                         config.priority,
                                         s.channels[channelId].root, 0),
                 old, ids \ {channelId}, failing)

reconnectAllChannels(s, failing) ==
    recreateChannels([s EXCEPT !.activeChannels = EmptyMap],
                     s.activeChannels, DOMAIN s.activeChannels, failing)

\* onPostgresChanges without the clearTimeout of the pending timeout
onPostgresChanges_NoClear(s, channelId, payload) ==
    LET delay == priorityDebounceDelays(s.channels[channelId].priority)
        timer == [channelId |-> channelId, payload |-> payload, delay |-> delay,
                  at |-> s.now]
    IN  [s EXCEPT
            !.updateTimers = @ \cup {timer},
            !.updateTimeouts = MapSet(@, channelId, timer),
            !.hist[channelId].lastEvent = payload,
            !.hist[channelId].lastEventAt = s.now,
            !.hist[channelId].merged = s.hist[channelId].open,
            !.hist[channelId].delivered = FALSE,
            !.hist[channelId].open = TRUE]

\* onPostgresChanges with a timeout that runs from the first event of a burst
onPostgresChanges_NoRestart(s, channelId, payload) ==
    LET pending == channelId \in DOMAIN s.updateTimeouts
        cleared == IF pending
                   THEN s.updateTimers \ {s.updateTimeouts[channelId]}
                   ELSE s.updateTimers
        delay == priorityDebounceDelays(s.channels[channelId].priority)
        timer == [channelId |-> channelId, payload |-> payload, delay |-> delay,
                  at |-> IF pending /\ s.updateTimeouts[channelId] \in s.updateTimers
                         THEN s.updateTimeouts[channelId].at ELSE s.now]
    IN  [s EXCEPT
            !.updateTimers = cleared \cup {timer},
            !.updateTimeouts = MapSet(@, channelId, timer),
            !.hist[channelId].lastEvent = payload,
            !.hist[channelId].lastEventAt = s.now,
            !.hist[channelId].merged = s.hist[channelId].open,
            !.hist[channelId].delivered = FALSE,
            !.hist[channelId].open = TRUE]

\* the postgres_changes handler of channel channelId: the pending timeout of
\* the channel is cleared and a new one is set with the priority's delay
onPostgresChanges(s, channelId, payload) ==
    LET pending == channelId \in DOMAIN s.updateTimeouts
        cleared == IF pending
                   THEN s.updateTimers \ {s.updateTimeouts[channelId]}
                   ELSE s.updateTimers
        delay == priorityDebounceDelays(s.channels[channelId].priority)
        timer == [channelId |-> channelId, payload |-> payload, delay |-> delay,
                  at |-> s.now]
    IN  [s EXCEPT
            !.updateTimers = cleared \cup {timer},
            !.updateTimeouts = MapSet(@, channelId, timer),
            !.hist[channelId].lastEvent = payload,
            !.hist[channelId].lastEventAt = s.now,
            !.hist[channelId].merged = s.hist[channelId].open,
            !.hist[channelId].delivered = FALSE,
            !.hist[channelId].open = TRUE]

\* the coalescing timer of a channel fires: callback(payload), then
\* updateTimeouts.delete(channelId)
onUpdateTimeout(s, timer) ==
    LET channelId == timer.channelId
        change == s.hist[channelId].lastChange
        call == <<s.channels[channelId].root, change>>
    IN  [s EXCEPT
            !.calls = IF change > 0 THEN @ \cup {call} ELSE @,
            !.duplicate = @ \/ (change > 0 /\ call \in s.calls),
            !.updateTimers = @ \ {timer},
            !.updateTimeouts = MapDelete(@, channelId),
            !.hist[channelId].open = FALSE,
            !.hist[channelId].delivered = TRUE,
            !.hist[channelId].extraCall = @ \/ ~s.hist[channelId].open,
            !.hist[channelId].stale =
                @ \/ timer.payload # s.hist[channelId].lastEvent]

\* the postgres_changes handlers of the channels ids run for one payload
RECURSIVE deliverChange(_, _, _)
deliverChange(s, ids, payload) ==
    IF ids = {} THEN s
    ELSE LET channelId == CHOOSE i \in ids : \A j \in ids : i <= j
         IN  deliverChange(onPostgresChanges(s, channelId, payload),
                           ids \ {channelId}, payload)

\* a row of table changes: every subscribed channel whose postgres_changes
\* filter is { event: '*', schema: 'public', table } receives the event
onTableChange(s, table, payload) ==
    LET receivers == {c \in ChannelIds(s) : /\ s.channels[c].table = table
                                            /\ s.channels[c].state = "joined"}
        s1 == deliverChange(s, receivers, payload)
    IN  [s1 EXCEPT
            !.changes = @ + 1,
            !.hist = [c \in DOMAIN s1.hist |->
                        IF c \in receivers
                        THEN [s1.hist[c] EXCEPT !.lastChange = s.changes + 1]
                        ELSE s1.hist[c]]]

\* the status callback of channel.subscribe: SUBSCRIBED
onSubscribed(s, channelId) ==
    notifyConnectionListeners(
        [s EXCEPT !.connectionStatus = "connected",
                  !.channels[channelId].state = "joined",
                  !.channels[channelId].chain = 0],
        "connected")

\* the status callback of channel.subscribe: CHANNEL_ERROR
onChannelError(s, channelId) ==
    LET s1 == notifyConnectionListeners(
                  [s EXCEPT !.channels[channelId].state = "errored"], "error")
        retryCount == MapGet(s.channelRetries, channelId, 0)
        ch == s.channels[channelId]
    IN  IF retryCount < ChannelRetryLimit
        THEN LET delay == ChannelRetryBase * Pow2(retryCount)
             IN  [s1 EXCEPT
                    !.channelRetries = MapSet(@, channelId, retryCount + 1),
                    !.retryTimers = @ (+) SetToBag({
                        [table |-> ch.table, callback |-> ch.callback,
                         priority |-> ch.priorityArg, delay |-> delay,
                         root |-> ch.root,
                         ordinal |-> ch.chain + retryCount + 1]})]
        ELSE s1

\* the channel-retry timer fires: createSubscription(table, callback, filter,
\* priority) with the arguments of the call that created the failed channel
onChannelRetry(s, timer) ==
    createSubscription(
        [s EXCEPT !.retryTimers = @ (-) SetToBag({timer})],
        timer.table, timer.callback, timer.priority, timer.root, timer.ordinal)

\* removeSubscription(channelId) up to its await: when the id is a key of
\* activeChannels, channel.unsubscribe() is called and awaited
removeSubscription(s, channelId) ==
    LET s1 == [s EXCEPT !.removeCalled = @ \cup {channelId}]
    IN  IF channelId \in DOMAIN s.activeChannels
        THEN [s1 EXCEPT !.channels[channelId].state = "leaving",
                        !.removals = @ \cup {channelId}]
        ELSE s1

\* removeSubscription(channelId) after its await: the retry count and the
\* registry entry are deleted and a pending coalescing timer is cleared
removeSubscriptionResume(s, channelId) ==
    LET pending == channelId \in DOMAIN s.updateTimeouts
        live == pending /\ s.updateTimeouts[channelId] \in s.updateTimers
    IN  [s EXCEPT
            !.removals = @ \ {channelId},
            !.channels[channelId].state = "closed",
            !.channelRetries = MapDelete(@, channelId),
            !.activeChannels = MapDelete(@, channelId),
            !.updateTimers = IF pending THEN @ \ {s.updateTimeouts[channelId]}
                             ELSE @,
            !.updateTimeouts = MapDelete(@, channelId),
            !.hist[channelId].open = IF live THEN FALSE ELSE @]

\* init()
init(s) ==
    IF s.isInitialized THEN s
    ELSE notifyConnectionListeners(
             [s EXCEPT !.isInitialized = TRUE,
                       !.heartbeatInterval = TRUE,
                       !.windowListeners = @ + 1,
                       !.connectionStatus = "connected",
                       !.destroyed = FALSE],
             "connected")

\* handleNetworkOnline()
handleNetworkOnline(s) ==
    attemptReconnection(notifyConnectionListeners(s, "connecting"))

\* handleNetworkOffline()
handleNetworkOffline(s) ==
    notifyConnectionListeners(
        [s EXCEPT !.connectionStatus = "disconnected"], "disconnected")

\* the callback of an attemptReconnection timer: reconnectAllChannels()
\* catches every error of createSubscription itself, so the try block of the
\* callback always completes and its catch block is never entered
onReconnectTimeout(s, timer, failing) ==
    notifyConnectionListeners(
        [reconnectAllChannels(
             [s EXCEPT !.reconnectTimers = @ (-) SetToBag({timer})], failing)
         EXCEPT !.connectionStatus = "connected",
                !.reconnectAttempts = 0,
                !.exhausted = FALSE],
        "connected")

\* reconnect() up to the awaited ping
reconnect(s) ==
    notifyConnectionListeners(
        [s EXCEPT !.connectionStatus = "connecting",
                  !.manualReconnects = @ + 1],
        "connecting")

\* reconnect() after the ping (a failed ping is only logged)
reconnectResume(s, failing) ==
    notifyConnectionListeners(
        [reconnectAllChannels([s EXCEPT !.manualReconnects = @ - 1], failing)
         EXCEPT !.connectionStatus = "connected",
                !.reconnectAttempts = 0,
                !.exhausted = FALSE],
        "connected")

\* removeSubscription is started for every key of activeChannels
RECURSIVE removeAll(_, _)
removeAll(s, ids) ==
    IF ids = {} THEN s
    ELSE LET channelId == CHOOSE i \in ids : \A j \in ids : i <= j
         IN  removeAll(removeSubscription(s, channelId), ids \ {channelId})

\* the timers stored in updateTimeouts are cleared
clearUpdateTimeouts(s) ==
    LET handles == {s.updateTimeouts[c] : c \in DOMAIN s.updateTimeouts}
        hit == {t.channelId : t \in handles \cap s.updateTimers}
    IN  [s EXCEPT
            !.updateTimers = @ \ handles,
            !.updateTimeouts = EmptyMap,
            !.hist = [c \in DOMAIN s.hist |->
                        IF c \in hit
                        THEN [s.hist[c] EXCEPT !.open = FALSE]
                        ELSE s.hist[c]]]

\* destroy(): removeEventListener is given new bound functions, so the
\* online/offline handlers stay registered
destroy(s) ==
    LET s1 == clearUpdateTimeouts([s EXCEPT !.heartbeatInterval = FALSE])
        s2 == removeAll([s1 EXCEPT !.channelRetries = EmptyMap],
                        DOMAIN s1.activeChannels)
    IN  [s2 EXCEPT !.connectionListeners = << >>,
                   !.isInitialized = FALSE,
                   !.destroyed = TRUE]

\* addConnectionListener with the call of the listener made first and
\* outside of a try block
addConnectionListener_Unguarded(s, listener, throws) ==
    LET s1 == invokeListener([s EXCEPT !.snapshot = <<listener>>,
                                       !.audience = << >>],
                             listener, s.connectionStatus, throws)
    IN  IF throws THEN s1
        ELSE [s1 EXCEPT !.connectionListeners = SetAdd(@, listener)]

\* addConnectionListener(listener): the listener is added to the Set and
\* called with the current status inside try/catch
addConnectionListener(s, listener, throws) ==
    invokeListener([s EXCEPT !.connectionListeners = SetAdd(@, listener),
                             !.snapshot = <<listener>>,
                             !.audience = << >>],
                   listener, s.connectionStatus, throws)

\* the window dispatches 'online' to the k handlers init() registered
RECURSIVE dispatchOnline(_, _)
dispatchOnline(s, k) ==
    IF k = 0 THEN s ELSE dispatchOnline(handleNetworkOnline(s), k - 1)

\* the window dispatches 'offline' to the k handlers init() registered
RECURSIVE dispatchOffline(_, _)
dispatchOffline(s, k) ==
    IF k = 0 THEN s ELSE dispatchOffline(handleNetworkOffline(s), k - 1)

----------------------------------------------------------------------------
(* Actions on the manager: one per macrotask *)

\* a consumer calls init()
CallInit ==
    /\ ~mgr.isInitialized
    /\ mgr.windowListeners < MaxInits
    /\ mgr' = init(mgr)
    /\ UNCHANGED others

\* a consumer calls createSubscription(table, callback, filter, priority)
CallCreateSubscription ==
    \E args \in SubscriptionArgs, callback \in Callbacks :
        /\ Len(mgr.channels) < MaxChannels
        /\ mgr' = createSubscription(mgr, args[1], callback, args[2], 0, 0)
        /\ UNCHANGED others

\* a consumer calls removeSubscription(id) with an id createSubscription returned
CallRemoveSubscription ==
    \E channelId \in ChannelIds(mgr) :
        /\ channelId \notin mgr.removeCalled
        /\ mgr' = removeSubscription(mgr, channelId)
        /\ UNCHANGED others

\* channel.unsubscribe() resolves and removeSubscription continues
UnsubscribeResolves ==
    \E channelId \in mgr.removals :
        /\ mgr' = removeSubscriptionResume(mgr, channelId)
        /\ UNCHANGED others

\* the data service reports SUBSCRIBED for a channel
ChannelSubscribed ==
    \E channelId \in ChannelIds(mgr) :
        /\ mgr.channels[channelId].state \in {"joining", "errored"}
        /\ mgr' = onSubscribed(mgr, channelId)
        /\ UNCHANGED others

\* the data service reports CHANNEL_ERROR for a channel
ChannelError ==
    \E channelId \in ChannelIds(mgr) :
        /\ mgr.channels[channelId].state \in {"joining", "joined", "errored"}
        /\ mgr' = onChannelError(mgr, channelId)
        /\ UNCHANGED others

\* a subscribed channel delivers a change event
ChannelEvent ==
    \E channelId \in ChannelIds(mgr), payload \in Payloads :
        /\ mgr.channels[channelId].state = "joined"
        /\ mgr' = onPostgresChanges(mgr, channelId, payload)
        /\ UNCHANGED others

\* a row of a table with subscribed channels changes
TableChange ==
    \E args \in SubscriptionArgs, payload \in Payloads :
        /\ mgr.changes < MaxChanges
        /\ \E c \in ChannelIds(mgr) : /\ mgr.channels[c].table = args[1]
                                      /\ mgr.channels[c].state = "joined"
        /\ mgr' = onTableChange(mgr, args[1], payload)
        /\ UNCHANGED others

\* a channel-retry timer fires
ChannelRetryFires ==
    \E timer \in BagToSet(mgr.retryTimers) :
        /\ Len(mgr.channels) < MaxChannels
        /\ mgr' = onChannelRetry(mgr, timer)
        /\ UNCHANGED others

\* the heartbeat interval ticks: the ping query is issued
HeartbeatTick ==
    /\ mgr.heartbeatInterval
    /\ mgr.pings < MaxPings
    /\ mgr' = [mgr EXCEPT !.pings = @ + 1]
    /\ UNCHANGED others

\* a heartbeat ping returns, with or without an error
HeartbeatReturns ==
    \E failed \in BOOLEAN :
        /\ mgr.pings > 0
        /\ BagCardinality(mgr.reconnectTimers) < MaxReconnectTimers
        /\ mgr' = IF failed
                  THEN handleConnectionFailure([mgr EXCEPT !.pings = @ - 1])
                  ELSE [mgr EXCEPT !.pings = @ - 1]
        /\ UNCHANGED others

\* the window fires 'online'
NetworkOnline ==
    /\ mgr.windowListeners > 0
    /\ mgr' = dispatchOnline(mgr, mgr.windowListeners)
    /\ BagCardinality(mgr'.reconnectTimers) <= MaxReconnectTimers
    /\ UNCHANGED others

\* the window fires 'offline'
NetworkOffline ==
    /\ mgr.windowListeners > 0
    /\ mgr' = dispatchOffline(mgr, mgr.windowListeners)
    /\ UNCHANGED others

\* an attemptReconnection timer fires
ReconnectTimeoutFires ==
    \E timer \in BagToSet(mgr.reconnectTimers),
       failing \in SUBSET DOMAIN mgr.activeChannels :
        /\ Len(mgr.channels) + Cardinality(DOMAIN mgr.activeChannels) <= MaxChannels
        /\ mgr' = onReconnectTimeout(mgr, timer, failing)
        /\ UNCHANGED others

\* a consumer calls reconnect()
CallReconnect ==
    /\ mgr.manualReconnects < MaxManualReconnects
    /\ mgr' = reconnect(mgr)
    /\ UNCHANGED others

\* the ping of reconnect() returns
ReconnectPingReturns ==
    \E failing \in SUBSET DOMAIN mgr.activeChannels :
        /\ mgr.manualReconnects > 0
        /\ Len(mgr.channels) + Cardinality(DOMAIN mgr.activeChannels) <= MaxChannels
        /\ mgr' = reconnectResume(mgr, failing)
        /\ UNCHANGED others

\* a consumer calls addConnectionListener(listener)
CallAddConnectionListener ==
    \E listener \in Listeners, throws \in BOOLEAN :
        /\ listener \notin Range(mgr.connectionListeners)
        /\ mgr' = addConnectionListener(mgr, listener, throws)
        /\ UNCHANGED others

\* a consumer calls removeConnectionListener(listener)
CallRemoveConnectionListener ==
    \E listener \in Range(mgr.connectionListeners) :
        /\ mgr' = removeConnectionListener(mgr, listener)
        /\ UNCHANGED others

\* destroy() is called
CallDestroy ==
    /\ ~mgr.destroyed
    /\ mgr' = destroy(mgr)
    /\ UNCHANGED others

----------------------------------------------------------------------------
(* useRequestSync (src/hooks/useRequestSync.ts): bounds, constants, state *)

\* number of 1000 ms steps the clock may advance
MaxTicks == 2
\* number of times the subscription effect may run (mount and re-runs)
MaxEffectRuns == 3

MAX_RETRY_ATTEMPTS == 3
RETRY_DELAY == 1000
RateLimitMs == 2000
CacheFreshMs == 5000
RefreshDebounceMs == 1000

\* Date.now() when the hook is first rendered: far enough from 0 for the
\* initial lastFetchTimeRef and lastUpdateTime (both 0) to be long ago
StartOfTime == 2 * CacheFreshMs

\* the request lists the data service can return; NoData is null
Data == {"d1", "d2"}
NoData == "none"

\* the callback the hook passes to createSubscription
HookCallback == "handleRealtimeUpdate"

\* fetchTimeoutRef holds no live timer
NoTimer == [kind |-> "none", delay |-> 0, k |-> 0]

\* the two scopes the emitted JavaScript can give `const signal`, declared in
\* the try block of fetchRequests and read in its catch block: block scope
\* (the read throws a ReferenceError) or function scope (a down-levelled var)
SignalScopes == {"block", "function"}

RsInit(scope) ==
    [ signalScope |-> scope,
      \* React state
      isLoading |-> TRUE,
      error |-> FALSE,
      isOnline |-> TRUE,
      lastUpdateTime |-> 0,
      \* refs
      mountedRef |-> TRUE,
      fetchTimeoutRef |-> NoTimer,      \* the live timer the ref points to
      refreshIntervalRef |-> FALSE,     \* the refresh interval is live
      fetchInProgressRef |-> FALSE,
      retryCountRef |-> 0,
      lastFetchTimeRef |-> 0,
      requestsSubscriptionRef |-> 0,    \* 0 is null
      requestersSubscriptionRef |-> 0,
      \* runtime
      queries |-> {},          \* network queries in flight; `current` marks
                               \* the one abortControllerRef points to
      syncPending |-> 0,       \* initializeSync() calls awaiting init()
      cache |-> NoData,        \* cacheService entry 'requests:all'
      now |-> StartOfTime,     \* Date.now()
      effectRuns |-> 0,        \* runs of the subscription effect
      unmounted |-> FALSE,     \* the component was unmounted
      dirty |-> FALSE,         \* a dependency of the effect changed
      \* history
      delivered |-> NoData,    \* last argument of onUpdate
      deliveredAt |-> 0,       \* time of the last call of onUpdate (0: none)
      skipped |-> FALSE,       \* a call returned at the in-progress guard
      rateLimitedAt |-> 0,     \* time of the last call that returned at the
                               \* rate limit (0: none yet)
      lastPlainQueryAt |-> 0,  \* time of the last query issued by a call
                               \* with bypassCache = false (0: none yet)
      uncaught |-> FALSE ]     \* a call of fetchRequests rejected

\* React state setters; a changed value makes the effects that depend on the
\* state run again after the next render
setIsLoading(r, v) == [r EXCEPT !.isLoading = v, !.dirty = @ \/ r.isLoading # v]
setError(r, v) == [r EXCEPT !.error = v, !.dirty = @ \/ r.error # v]
setIsOnline(r, v) == [r EXCEPT !.isOnline = v, !.dirty = @ \/ r.isOnline # v]
setLastUpdateTime(r, v) ==
    [r EXCEPT !.lastUpdateTime = v, !.dirty = @ \/ r.lastUpdateTime # v]

\* the consumer's onUpdate callback
onUpdate(r, data) == [r EXCEPT !.delivered = data, !.deliveredAt = r.now]

\* abortControllerRef.current.abort()
abortCurrent(r) ==
    [r EXCEPT !.queries =
        {IF q.current THEN [q EXCEPT !.aborted = TRUE] ELSE q : q \in @}]

\* abortControllerRef.current = new AbortController()
newAbortController(r) ==
    [r EXCEPT !.queries = {[q EXCEPT !.current = FALSE] : q \in @}]

\* fetchRequests from `fetchInProgressRef.current = true` to the awaited query
fetchStart(r, bypassCache) ==
    LET r1 == [newAbortController(abortCurrent(r)) EXCEPT
                  !.fetchInProgressRef = TRUE,
                  !.lastFetchTimeRef = r.now]
        r2 == IF r1.mountedRef
              THEN IF r1.isLoading \/ r1.error
                   THEN setIsLoading(setError(r1, FALSE), TRUE)
                   ELSE setError(r1, FALSE)
              ELSE r1
    IN  IF /\ ~bypassCache
           /\ r2.isOnline
           /\ r2.cache # NoData
           /\ r2.now - r2.lastUpdateTime < CacheFreshMs
        THEN [onUpdate(r2, r2.cache) EXCEPT !.fetchInProgressRef = FALSE]
        ELSE [r2 EXCEPT
                !.queries = @ \cup {[now |-> r.now, bypassCache |-> bypassCache,
                                     aborted |-> FALSE, current |-> TRUE]},
                !.lastPlainQueryAt = IF bypassCache THEN @ ELSE r.now]

\* fetchRequests without the in-progress guard
fetchRequests_NoGuard(r, bypassCache) ==
    IF ~bypassCache /\ (r.now - r.lastFetchTimeRef) < RateLimitMs
    THEN [r EXCEPT !.rateLimitedAt = r.now]
    ELSE fetchStart(r, bypassCache)

\* fetchRequests without the rate limit
fetchRequests_NoRateLimit(r, bypassCache) ==
    IF r.fetchInProgressRef
    THEN [r EXCEPT !.skipped = TRUE]
    ELSE fetchStart(r, bypassCache)

\* fetchRequests with the rate limit applied to bypassing calls too
fetchRequests_RateLimitAll(r, bypassCache) ==
    IF r.fetchInProgressRef
    THEN [r EXCEPT !.skipped = TRUE]
    ELSE IF (r.now - r.lastFetchTimeRef) < RateLimitMs
    THEN [r EXCEPT !.rateLimitedAt = r.now]
    ELSE fetchStart(r, bypassCache)

\* fetchRequests(bypassCache) up to its await
fetchRequests(r, bypassCache) ==
    IF r.fetchInProgressRef
    THEN [r EXCEPT !.skipped = TRUE]
    ELSE IF ~bypassCache /\ (r.now - r.lastFetchTimeRef) < RateLimitMs
    THEN [r EXCEPT !.rateLimitedAt = r.now]
    ELSE fetchStart(r, bypassCache)

\* the catch block of fetchRequests for an error that is not an abort, when
\* `signal` is readable there
fetchFailed(r) ==
    IF r.mountedRef
    THEN LET e1 == setError(r, TRUE)
             e2 == IF e1.cache # NoData THEN onUpdate(e1, e1.cache) ELSE e1
         IN  IF e2.retryCountRef < MAX_RETRY_ATTEMPTS
             THEN [e2 EXCEPT !.fetchTimeoutRef =
                      [kind |-> "retry",
                       delay |-> RETRY_DELAY * Pow2(e2.retryCountRef),
                       k |-> e2.retryCountRef]]
             ELSE setIsLoading(e2, FALSE)
    ELSE r

\* fetchRequests after a successful query, without the reset of the retry
\* count
fetchSucceeded_NoReset(r, q, data) ==
    IF r.mountedRef
    THEN setIsLoading(
             setLastUpdateTime(onUpdate([r EXCEPT !.cache = data], data), q.now),
             FALSE)
    ELSE r

\* fetchRequests after a successful query
fetchSucceeded(r, q, data) ==
    IF r.mountedRef
    THEN [setIsLoading(
              setLastUpdateTime(onUpdate([r EXCEPT !.cache = data], data), q.now),
              FALSE)
          EXCEPT !.retryCountRef = 0]
    ELSE r

\* fetchRequests after its await, without the finally block
fetchResume_NoFinally(r, q, outcome) ==
    LET r0 == [r EXCEPT !.queries = @ \ {q}]
    IN  IF q.aborted THEN r0
        ELSE IF outcome = "error"
        THEN IF r.signalScope = "block"
             THEN [r0 EXCEPT !.uncaught = TRUE]
             ELSE fetchFailed(r0)
        ELSE fetchSucceeded(r0, q, outcome)

\* fetchRequests after its await: the query q returned data or an error
fetchResume(r, q, outcome) ==
    LET r0 == [r EXCEPT !.queries = @ \ {q}]
        r1 == IF q.aborted THEN r0
              ELSE IF outcome = "error"
              THEN IF r.signalScope = "block"
                   THEN [r0 EXCEPT !.uncaught = TRUE]
                   ELSE fetchFailed(r0)
              ELSE fetchSucceeded(r0, q, outcome)
    IN  [r1 EXCEPT !.fetchInProgressRef = FALSE]

\* the callback of the timer in fetchTimeoutRef: a retry or a delayed refresh
onFetchTimeout(r) ==
    LET r0 == [r EXCEPT !.fetchTimeoutRef = NoTimer]
    IN  IF r.fetchTimeoutRef.kind = "retry"
        THEN IF r0.mountedRef
             THEN fetchRequests([r0 EXCEPT !.retryCountRef = @ + 1], TRUE)
             ELSE r0
        ELSE fetchRequests(r0, TRUE)

\* isHighPriorityChange of handleRealtimeUpdate, by payload
IsHighPriorityChange(payload) == payload = "p1"

\* handleRealtimeUpdate(payload)
handleRealtimeUpdate(r, payload) ==
    IF IsHighPriorityChange(payload)
    THEN fetchRequests([r EXCEPT !.cache = NoData], TRUE)
    ELSE [r EXCEPT !.fetchTimeoutRef =
             [kind |-> "refresh", delay |-> RefreshDebounceMs, k |-> 0]]

\* the cleanup of the subscription effect, on the hook
cleanup(r) ==
    [abortCurrent(r) EXCEPT !.mountedRef = FALSE,
                            !.fetchTimeoutRef = NoTimer,
                            !.refreshIntervalRef = FALSE]

\* the cleanup of the subscription effect, on the manager: removeSubscription
\* is called (and not awaited) for each subscription ref that is not null
cleanupSubscriptions(s, r) ==
    LET s1 == IF r.requestsSubscriptionRef # 0
              THEN removeSubscription(s, r.requestsSubscriptionRef) ELSE s
    IN  IF r.requestersSubscriptionRef # 0
        THEN removeSubscription(s1, r.requestersSubscriptionRef) ELSE s1

\* the body of the subscription effect, on the hook: fetchRequests(),
\* initializeSync() up to its await, setupAdaptiveRefresh()
setup(r) ==
    [fetchRequests([r EXCEPT !.mountedRef = TRUE, !.dirty = FALSE], FALSE)
     EXCEPT !.syncPending = @ + 1,
            !.refreshIntervalRef = TRUE,
            !.effectRuns = @ + 1]

----------------------------------------------------------------------------
(* Actions on useRequestSync *)

\* the component is mounted and the subscription effect runs
Mount ==
    /\ rs.effectRuns = 0
    /\ rs' = setup(rs)
    /\ mgr' = init(mgr)
    /\ UNCHANGED besidesRs

\* a dependency of the subscription effect changed: after the render its
\* cleanup runs, then its body
EffectReruns ==
    /\ rs.effectRuns > 0
    /\ rs.effectRuns < MaxEffectRuns
    /\ ~rs.unmounted
    /\ rs.dirty
    /\ rs' = setup(cleanup(rs))
    /\ mgr' = init(cleanupSubscriptions(mgr, rs))
    /\ UNCHANGED besidesRs

\* the component is unmounted: the cleanup of the subscription effect runs
Unmount ==
    /\ rs.effectRuns > 0
    /\ ~rs.unmounted
    /\ rs' = [cleanup(rs) EXCEPT !.unmounted = TRUE]
    /\ mgr' = cleanupSubscriptions(mgr, rs)
    /\ UNCHANGED besidesRs

\* init() resolves and initializeSync() continues: the two subscriptions are
\* created and their ids stored in the refs
InitializeSyncResumes ==
    /\ rs.syncPending > 0
    /\ LET s1 == createSubscription(mgr, "requests", HookCallback, "high", 0, 0)
           s2 == createSubscription(s1, "requesters", HookCallback, "high", 0, 0)
       IN  /\ mgr' = s2
           /\ rs' = [rs EXCEPT !.syncPending = @ - 1,
                               !.requestsSubscriptionRef = NextChannelId(mgr),
                               !.requestersSubscriptionRef = NextChannelId(s1)]
    /\ UNCHANGED besidesRs

\* the consumer calls refetch()
CallRefetch ==
    /\ rs.effectRuns > 0
    /\ ~rs.unmounted
    /\ rs' = fetchRequests(rs, TRUE)
    /\ UNCHANGED mgr
    /\ UNCHANGED besidesRs

\* the window fires 'online': handleOnline of the hook
HandleOnline ==
    /\ rs.effectRuns > 0
    /\ ~rs.unmounted
    /\ ~rs.isOnline
    /\ rs' = fetchRequests(setIsOnline(rs, TRUE), TRUE)
    /\ UNCHANGED mgr
    /\ UNCHANGED besidesRs

\* the window fires 'offline': handleOffline of the hook
HandleOffline ==
    /\ rs.effectRuns > 0
    /\ ~rs.unmounted
    /\ rs.isOnline
    /\ rs' = setIsOnline(rs, FALSE)
    /\ UNCHANGED mgr
    /\ UNCHANGED besidesRs

\* the manager invokes the callback of one of the hook's subscriptions
RealtimeUpdate ==
    \E payload \in Payloads :
        /\ \E c \in ChannelIds(mgr) : /\ mgr.channels[c].callback = HookCallback
                                      /\ mgr.channels[c].state # "closed"
        /\ rs' = handleRealtimeUpdate(rs, payload)
        /\ UNCHANGED mgr
        /\ UNCHANGED besidesRs

\* a coalescing timer fires: the callback of its channel is invoked with the
\* payload; when the callback is the hook's, handleRealtimeUpdate runs
UpdateTimeoutFires ==
    \E timer \in mgr.updateTimers :
        /\ mgr' = onUpdateTimeout(mgr, timer)
        /\ rs' = IF mgr.channels[timer.channelId].callback = HookCallback
                 THEN handleRealtimeUpdate(rs, timer.payload)
                 ELSE rs
        /\ UNCHANGED besidesRs

\* time passes on the clock of the coalescer: by DebounceStep, or up to the
\* moment the next coalescing timer is due
DebounceStep == 30

DebounceTick ==
    LET dues == {timer.at + timer.delay : timer \in mgr.updateTimers}
        next == mgr.now + DebounceStep
        target == IF \E d \in dues : d < next
                  THEN CHOOSE d \in dues : \A e \in dues : d <= e
                  ELSE next
    IN  /\ mgr.now < MaxDebounceClock
        /\ target > mgr.now
        /\ mgr' = [mgr EXCEPT !.now = target]
        /\ UNCHANGED others

\* a coalescing timer fires at the time it is due
UpdateTimeoutDue ==
    \E timer \in mgr.updateTimers :
        /\ timer.at + timer.delay = mgr.now
        /\ mgr' = onUpdateTimeout(mgr, timer)
        /\ rs' = IF mgr.channels[timer.channelId].callback = HookCallback
                 THEN handleRealtimeUpdate(rs, timer.payload)
                 ELSE rs
        /\ UNCHANGED besidesRs

\* the timer in fetchTimeoutRef fires
FetchTimeoutFires ==
    /\ rs.fetchTimeoutRef # NoTimer
    /\ rs' = onFetchTimeout(rs)
    /\ UNCHANGED mgr
    /\ UNCHANGED besidesRs

\* the refresh interval of setupAdaptiveRefresh ticks
RefreshIntervalTick ==
    /\ rs.refreshIntervalRef
    /\ rs.mountedRef /\ rs.isOnline
    /\ rs' = fetchRequests(rs, FALSE)
    /\ UNCHANGED mgr
    /\ UNCHANGED besidesRs

\* a network query returns
QueryReturns ==
    \E q \in rs.queries, outcome \in Data \cup {"error"} :
        /\ rs' = fetchResume(rs, q, outcome)
        /\ UNCHANGED mgr
        /\ UNCHANGED besidesRs

\* time passes
Tick ==
    /\ rs.now < StartOfTime + MaxTicks * 1000
    /\ rs' = [rs EXCEPT !.now = @ + 1000]
    /\ UNCHANGED mgr
    /\ UNCHANGED besidesRs

----------------------------------------------------------------------------
(* useSetListSync (src/hooks/useSetListSync.ts) *)

\* a set-list array without elements
EmptyList == "empty"
\* the set-list arrays the data service can return
SetLists == {EmptyList, "s1"}

\* the ways the query of fetchSetLists fails: fetch() rejects (the network is
\* down) or the data service answers with an error (e.g. a malformed query);
\* either way the query resolves with its error field set
FetchErrors == {"networkError", "queryError"}

\* the callbacks the hook passes to createSubscription
SetListsCallback == "setListsChanged"
SetListSongsCallback == "setListSongsChanged"

SlInit ==
    [ \* React state
      setLists |-> EmptyList,
      isLoading |-> TRUE,
      error |-> FALSE,
      \* refs
      retryCountRef |-> 0,
      mountedRef |-> TRUE,
      setListsSubscriptionRef |-> 0,       \* 0 is null
      setListSongsSubscriptionRef |-> 0,
      fetchTimeoutRef |-> NoTimer,         \* the live timer the ref points to
      fetchInProgressRef |-> FALSE,
      \* runtime
      queries |-> 0,            \* network queries in flight
      cache |-> NoData,         \* cacheService entry 'setLists:all'
      refreshInterval |-> FALSE,
      mounted |-> FALSE,        \* the effect has run
      unmounted |-> FALSE,      \* its cleanup has run
      \* history
      retriesFired |-> 0,       \* retry timers fired since the last successful
                                \* fetch
      exhausted |-> FALSE,      \* a fetch failed after the third retry and
                                \* no fetch has succeeded since
      failure |-> "none" ]      \* the error of the last query, if it failed

\* fetchSetLists: the finally block
fetchSetListsFinally(r) ==
    [r EXCEPT !.isLoading = IF r.mountedRef THEN FALSE ELSE @,
              !.fetchInProgressRef = FALSE]

\* fetchSetLists(bypassCache) up to its await
fetchSetLists(r, bypassCache) ==
    IF r.fetchInProgressRef THEN r
    ELSE LET r1 == [r EXCEPT !.fetchInProgressRef = TRUE]
         IN  IF ~r1.mountedRef THEN fetchSetListsFinally(r1)
             ELSE LET r2 == [r1 EXCEPT !.isLoading = TRUE, !.error = FALSE]
                  IN  IF ~bypassCache /\ r2.cache \notin {NoData, EmptyList}
                      THEN fetchSetListsFinally(
                               [r2 EXCEPT !.setLists = r2.cache,
                                          !.isLoading = FALSE])
                      ELSE [r2 EXCEPT !.queries = @ + 1]

\* the catch block of fetchSetLists without the bound on the retries
fetchSetListsFailed_NoBound(r) ==
    IF r.mountedRef
    THEN [r EXCEPT
            !.error = TRUE,
            !.setLists = IF r.cache # NoData THEN r.cache ELSE @,
            !.fetchTimeoutRef =
                [kind |-> "retry",
                 delay |-> RETRY_DELAY * Pow2(r.retryCountRef),
                 k |-> r.retriesFired]]
    ELSE r

\* the catch block of fetchSetLists; k of the timer is history: the number of
\* retries made before this one
fetchSetListsFailed(r) ==
    IF r.mountedRef
    THEN LET e == [r EXCEPT
                      !.error = TRUE,
                      !.setLists = IF r.cache # NoData THEN r.cache ELSE @]
         IN  IF e.retryCountRef < MAX_RETRY_ATTEMPTS
             THEN [e EXCEPT !.fetchTimeoutRef =
                      [kind |-> "retry",
                       delay |-> RETRY_DELAY * Pow2(e.retryCountRef),
                       k |-> e.retriesFired]]
             ELSE e
    ELSE r

\* fetchSetLists after a successful query
fetchSetListsSucceeded(r, data) ==
    IF r.mountedRef
    THEN [r EXCEPT !.cache = data, !.setLists = data, !.retryCountRef = 0]
    ELSE r

\* fetchSetLists after its await: the query returned data or an error
fetchSetListsResume(r, outcome) ==
    LET r0 == [r EXCEPT !.queries = @ - 1]
    IN  IF outcome \in FetchErrors
        THEN fetchSetListsFinally(
                 [fetchSetListsFailed(r0) EXCEPT
                     !.exhausted = @ \/ r0.retriesFired >= MAX_RETRY_ATTEMPTS,
                     !.failure = outcome])
        ELSE fetchSetListsFinally(
                 [fetchSetListsSucceeded(r0, outcome) EXCEPT
                     !.retriesFired = 0, !.exhausted = FALSE,
                     !.failure = "none"])

\* the callback of the retry timer
onSetListsRetry(r) ==
    LET r0 == [r EXCEPT !.fetchTimeoutRef = NoTimer]
    IN  IF r0.mountedRef
        THEN fetchSetLists([r0 EXCEPT !.retryCountRef = @ + 1,
                                      !.retriesFired = @ + 1], TRUE)
        ELSE r0

----------------------------------------------------------------------------
(* Actions on useSetListSync *)

\* the component is mounted and the effect runs: init(), fetchSetLists(),
\* setupSubscriptions(), setInterval
SlMount ==
    /\ ~sl.mounted
    /\ LET s1 == createSubscription(init(mgr), "set_lists", SetListsCallback,
                                    NoPriority, 0, 0)
           s2 == createSubscription(s1, "set_list_songs", SetListSongsCallback,
                                    NoPriority, 0, 0)
       IN  /\ mgr' = s2
           /\ sl' = [fetchSetLists([sl EXCEPT !.mountedRef = TRUE,
                                              !.mounted = TRUE], FALSE)
                     EXCEPT !.setListsSubscriptionRef = NextChannelId(init(mgr)),
                            !.setListSongsSubscriptionRef = NextChannelId(s1),
                            !.refreshInterval = TRUE]
    /\ UNCHANGED besidesSl

\* the component is unmounted: the cleanup of the effect runs
SlUnmount ==
    /\ sl.mounted
    /\ ~sl.unmounted
    /\ sl' = [sl EXCEPT !.mountedRef = FALSE,
                        !.fetchTimeoutRef = NoTimer,
                        !.refreshInterval = FALSE,
                        !.unmounted = TRUE]
    /\ mgr' = removeSubscription(
                  removeSubscription(mgr, sl.setListsSubscriptionRef),
                  sl.setListSongsSubscriptionRef)
    /\ UNCHANGED besidesSl

\* the manager invokes the callback of one of the hook's subscriptions
SlRealtimeUpdate ==
    /\ \E c \in ChannelIds(mgr) :
          /\ mgr.channels[c].callback \in {SetListsCallback, SetListSongsCallback}
          /\ mgr.channels[c].state # "closed"
    /\ sl' = fetchSetLists(sl, TRUE)
    /\ UNCHANGED mgr
    /\ UNCHANGED besidesSl

\* the consumer calls refreshSetLists()
SlRefresh ==
    /\ sl.mounted
    /\ ~sl.unmounted
    /\ sl' = fetchSetLists(sl, TRUE)
    /\ UNCHANGED mgr
    /\ UNCHANGED besidesSl

\* the five-minute refresh interval ticks
SlIntervalTick ==
    /\ sl.refreshInterval
    /\ sl.mountedRef
    /\ sl' = fetchSetLists(sl, TRUE)
    /\ UNCHANGED mgr
    /\ UNCHANGED besidesSl

\* the network query of fetchSetLists returns
SlQueryReturns ==
    \E outcome \in SetLists \cup FetchErrors :
        /\ sl.queries > 0
        /\ sl' = fetchSetListsResume(sl, outcome)
        /\ UNCHANGED mgr
        /\ UNCHANGED besidesSl

\* the retry timer fires
SlRetryFires ==
    /\ sl.fetchTimeoutRef # NoTimer
    /\ sl' = onSetListsRetry(sl)
    /\ UNCHANGED mgr
    /\ UNCHANGED besidesSl

----------------------------------------------------------------------------
(* UltraFastQueueView and useUltraFastRequestSync *)

\* number of requests in the queue
MaxRequests == 1
\* number of delayed calls (setTimeout) of one kind pending at a time
MaxPendingTimers == 1

RequestIds == 1..MaxRequests

\* the remote operations of the queue view
MutationKinds == {"lock", "play"}

\* the request list of the data service when the view is mounted
ServerInit == [i \in RequestIds |-> [isLocked |-> FALSE, isPlayed |-> FALSE]]

QvInit ==
    [ \* state of UltraFastQueueView
      requests |-> EmptyMap,        \* the list shown, by request id
      actionStates |-> {},          \* ids whose actionStates entry is true
      \* state and refs of useUltraFastRequestSync
      isLoading |-> TRUE,
      error |-> FALSE,
      connectionStatus |-> "connecting",
      mountedRef |-> TRUE,
      channelRef |-> "none",        \* state of the channel the ref points to
      lastDataRef |-> EmptyMap,
      fetchInProgressRef |-> FALSE,
      connectionCheckInterval |-> FALSE,
      \* runtime
      queries |-> {},               \* network queries in flight, with the
                                    \* list the data service read for them
      mutations |-> {},             \* remote operations in flight
      refreshTimers |-> 0,          \* pending setTimeout(forceRefresh, 100)
      eventTimers |-> 0,            \* pending setTimeout(fetchRequests, 50)
      resubscribeTimers |-> 0,      \* pending setTimeout(setupRealtimeSubscription, 1000)
      server |-> ServerInit,        \* the request list of the data service
      mounted |-> FALSE,
      unmounted |-> FALSE,
      \* history: the rollback of the last rejected operation
      rollback |-> [pending |-> FALSE, clean |-> FALSE, before |-> EmptyMap],
      \* history: the last call of a mutation handler returned at its
      \* actionStates guard
      refused |-> FALSE,
      \* history: a change event arrived, no fetch has started since and no
      \* query in flight has read the list since
      unserved |-> FALSE ]

\* the optimistic update of handleLockRequest
optimisticLock(list, id) ==
    [i \in DOMAIN list |->
        IF i = id THEN [list[i] EXCEPT !.isLocked = ~list[i].isLocked]
        ELSE [list[i] EXCEPT !.isLocked = FALSE]]

\* the optimistic update of handlePlayRequest
optimisticPlay(list, id) ==
    [i \in DOMAIN list |->
        IF i = id THEN [list[i] EXCEPT !.isPlayed = TRUE, !.isLocked = FALSE]
        ELSE list[i]]

\* lock_request(request_id) of the data service
lock_request(list, id) ==
    [i \in DOMAIN list |-> [list[i] EXCEPT !.isLocked = (i = id)]]

\* the update of the data service that marks a request as played
markPlayed(list, id) ==
    [i \in DOMAIN list |->
        IF i = id THEN [list[i] EXCEPT !.isPlayed = TRUE, !.isLocked = FALSE]
        ELSE list[i]]

\* another optimistic update, or a change of the data service's list, ends
\* the comparison of a rollback with the state before its operation
unclean(v) ==
    [v EXCEPT !.rollback.clean = FALSE,
              !.rollback.before = EmptyMap,
              !.mutations = {[m EXCEPT !.clean = FALSE, !.before = EmptyMap] :
                                m \in @}]

\* useUltraFastRequestSync.fetchRequests(source) up to its await
ultraFetchRequests(v) ==
    IF ~v.mountedRef \/ v.fetchInProgressRef THEN v
    ELSE [v EXCEPT !.fetchInProgressRef = TRUE,
                   !.queries = @ \cup {[read |-> FALSE, data |-> EmptyMap]},
                   !.unserved = FALSE]

\* fetchRequests after its await: the query returned an error, or the list the
\* data service read
ultraFetchResume(v, q, failed) ==
    LET v0 == [v EXCEPT !.queries = @ \ {q},
                        !.rollback = [pending |-> FALSE, clean |-> FALSE,
                                      before |-> EmptyMap]]
        v1 == IF failed
              THEN [v0 EXCEPT !.error = IF v0.mountedRef THEN TRUE ELSE @]
              ELSE IF ~v0.mountedRef THEN v0
              ELSE LET dataChanged == q.data # v0.lastDataRef
                       v2 == IF dataChanged
                             THEN [v0 EXCEPT !.lastDataRef = q.data,
                                             !.requests = q.data]
                             ELSE v0
                   IN  [v2 EXCEPT !.error = FALSE, !.isLoading = FALSE]
    IN  [v1 EXCEPT !.fetchInProgressRef = FALSE]

\* setupRealtimeSubscription(): the channel of the ref is unsubscribed and a
\* new channel is created and subscribed
setupRealtimeSubscription(v) == [v EXCEPT !.channelRef = "joining"]

\* handleRealtimeEvent(payload), and the handler of requesters changes: a lock
\* or play change and a requester change call fetchRequests at once, any
\* other change after 50 ms
handleRealtimeEvent(v, critical) ==
    LET v1 == [v EXCEPT !.unserved = TRUE]
    IN  IF critical THEN ultraFetchRequests(v1)
        ELSE [v1 EXCEPT !.eventTimers = @ + 1]

\* handleLockRequest / handlePlayRequest without the actionStates guard
handleMutation_NoGuard(v, kind, id) ==
    LET v1 == unclean(v)
    IN  [v1 EXCEPT
           !.refused = FALSE,
           !.actionStates = @ \cup {id},
           !.requests = IF kind = "lock" THEN optimisticLock(@, id)
                        ELSE optimisticPlay(@, id),
           !.mutations = @ \cup {[id |-> id, kind |-> kind,
                                  before |-> v.requests, clean |-> TRUE]}]

\* handleLockRequest(id) / handlePlayRequest(id) up to the awaited operation
handleMutation(v, kind, id) ==
    IF id \in v.actionStates THEN [v EXCEPT !.refused = TRUE]
    ELSE LET v1 == unclean(v)
         IN  [v1 EXCEPT
                !.refused = FALSE,
                !.actionStates = @ \cup {id},
                !.requests = IF kind = "lock" THEN optimisticLock(@, id)
                             ELSE optimisticPlay(@, id),
                !.mutations = @ \cup {[id |-> id, kind |-> kind,
                                       before |-> v.requests, clean |-> TRUE]}]

\* the handler after a rejected or failed operation: forceRefresh()
mutationRejected(v, m) ==
    LET v1 == ultraFetchRequests(v)
    IN  [v1 EXCEPT !.rollback = [pending |-> v1.queries # {},
                                 clean |-> m.clean, before |-> m.before]]

\* the handler after a successful operation: setTimeout(forceRefresh, 100)
mutationSucceeded(v, m) ==
    [unclean(v) EXCEPT
        !.server = IF m.kind = "lock" THEN lock_request(@, m.id)
                   ELSE markPlayed(@, m.id),
        !.refreshTimers = @ + 1]

\* handleLockRequest / handlePlayRequest after the awaited operation
handleMutationResume(v, m, outcome) ==
    LET v0 == [v EXCEPT !.mutations = @ \ {m}]
        v1 == IF outcome = "success" THEN mutationSucceeded(v0, m)
              ELSE mutationRejected(v0, m)
    IN  [v1 EXCEPT !.actionStates = @ \ {m.id}, !.refused = FALSE]

----------------------------------------------------------------------------
(* Actions on the queue view *)

\* the view is mounted: fetchRequests('initial'), setupRealtimeSubscription(),
\* monitorConnection()
QvMount ==
    /\ ~qv.mounted
    /\ qv' = [setupRealtimeSubscription(
                  ultraFetchRequests([qv EXCEPT !.mountedRef = TRUE,
                                                !.mounted = TRUE]))
              EXCEPT !.connectionCheckInterval = TRUE]
    /\ UNCHANGED besidesQv

\* the view is unmounted: the cleanup of the hook's effect runs
QvUnmount ==
    /\ qv.mounted
    /\ ~qv.unmounted
    /\ qv' = [qv EXCEPT !.mountedRef = FALSE,
                        !.channelRef = "closed",
                        !.connectionCheckInterval = FALSE,
                        !.unmounted = TRUE]
    /\ UNCHANGED besidesQv

\* the performer locks a request or marks it as played
QvHandleMutation ==
    \E kind \in MutationKinds, id \in DOMAIN qv.requests :
        /\ qv.mounted
        /\ ~qv.unmounted
        /\ qv' = handleMutation(qv, kind, id)
        /\ UNCHANGED besidesQv

\* the remote operation of a mutation returns true, returns false or throws
QvMutationReturns ==
    \E m \in qv.mutations, outcome \in {"success", "rejected", "throws"} :
        /\ outcome = "success" => qv.refreshTimers < MaxPendingTimers
        /\ qv' = handleMutationResume(qv, m, outcome)
        /\ UNCHANGED besidesQv

\* the remote operation of a mutation returns true
QvMutationSucceeds ==
    \E m \in qv.mutations :
        /\ qv.refreshTimers < MaxPendingTimers
        /\ qv' = handleMutationResume(qv, m, "success")
        /\ UNCHANGED besidesQv

\* the data service executes a query of fetchRequests
QvDataServiceReads ==
    \E q \in qv.queries :
        /\ ~q.read
        /\ qv' = [qv EXCEPT !.queries =
                     (@ \ {q}) \cup {[read |-> TRUE, data |-> qv.server]},
                            !.unserved = FALSE]
        /\ UNCHANGED besidesQv

\* a query of fetchRequests returns, with the list read or with an error
QvQueryReturns ==
    \E q \in qv.queries, failed \in BOOLEAN :
        /\ failed \/ q.read
        /\ qv' = ultraFetchResume(qv, q, failed)
        /\ UNCHANGED besidesQv

\* another client locks a request
QvServerChange ==
    \E id \in RequestIds :
        /\ qv.server # lock_request(qv.server, id)
        /\ qv' = [unclean(qv) EXCEPT !.server = lock_request(@, id)]
        /\ UNCHANGED besidesQv

\* the status callback of channel.subscribe
QvSubscriptionStatus ==
    \E status \in {"SUBSCRIBED", "CHANNEL_ERROR", "CLOSED"} :
        /\ qv.channelRef \in {"joining", "joined", "errored"}
        /\ status = "CHANNEL_ERROR" => qv.resubscribeTimers < MaxPendingTimers
        /\ qv' = CASE status = "SUBSCRIBED" ->
                        [qv EXCEPT !.channelRef = "joined",
                                   !.connectionStatus = "connected"]
                   [] status = "CHANNEL_ERROR" ->
                        [qv EXCEPT !.channelRef = "errored",
                                   !.connectionStatus = "disconnected",
                                   !.resubscribeTimers = @ + 1]
                   [] status = "CLOSED" ->
                        [qv EXCEPT !.channelRef = "closed",
                                   !.connectionStatus = "connecting"]
        /\ UNCHANGED besidesQv

\* setTimeout(setupRealtimeSubscription, 1000) fires
QvResubscribeFires ==
    /\ qv.resubscribeTimers > 0
    /\ qv' = setupRealtimeSubscription([qv EXCEPT !.resubscribeTimers = @ - 1])
    /\ UNCHANGED besidesQv

\* the connection check interval ticks
QvMonitorTick ==
    /\ qv.connectionCheckInterval
    /\ qv.channelRef \in {"closed", "errored"}
    /\ qv' = setupRealtimeSubscription(
                 [qv EXCEPT !.connectionStatus = "disconnected"])
    /\ UNCHANGED besidesQv

\* the channel delivers a change: a lock or play change or a requester change
\* fetches at once, any other change after 50 ms
QvRealtimeEvent ==
    \E critical \in BOOLEAN :
        /\ qv.channelRef = "joined"
        /\ ~critical => qv.eventTimers < MaxPendingTimers
        /\ qv' = handleRealtimeEvent(qv, critical)
        /\ UNCHANGED besidesQv

\* setTimeout(() => fetchRequests('realtime-normal'), 50) fires
QvEventTimerFires ==
    /\ qv.eventTimers > 0
    /\ qv' = ultraFetchRequests([qv EXCEPT !.eventTimers = @ - 1])
    /\ UNCHANGED besidesQv

\* setTimeout(forceRefresh, 100) fires
QvRefreshTimerFires ==
    /\ qv.refreshTimers > 0
    /\ qv' = ultraFetchRequests([qv EXCEPT !.refreshTimers = @ - 1])
    /\ UNCHANGED besidesQv

\* forceRefresh() from the refresh button, or the page becomes visible
QvForceRefresh ==
    /\ qv.mounted
    /\ ~qv.unmounted
    /\ qv' = ultraFetchRequests(qv)
    /\ UNCHANGED besidesQv

\* reconnect(), from the button or the window's 'online' event
QvReconnect ==
    /\ qv.mounted
    /\ ~qv.unmounted
    /\ qv' = ultraFetchRequests(
                 setupRealtimeSubscription(
                     [qv EXCEPT !.connectionStatus = "connecting"]))
    /\ UNCHANGED besidesQv

----------------------------------------------------------------------------
(* QueueView: the queue reset *)

\* number of requests that are ever submitted
MaxQueued == 3

QueuedIds == 1..MaxQueued

\* a request list: for each request id whether it is absent, pending
\* (is_played = false) or played
NoRequests == [i \in QueuedIds |-> "absent"]

RvInit ==
    [ \* props and state of QueueView
      requests |-> NoRequests,
      optimisticallyClearedQueue |-> FALSE,
      isResetting |-> FALSE,
      \* runtime
      reset |-> "idle",             \* the awaited onResetQueue(): idle, sent
                                    \* or applied by the data service
      table |-> NoRequests ]        \* the request table of the data service

\* requests.filter(r => !r.isPlayed)
pendingRequests(list) == {i \in QueuedIds : list[i] = "pending"}

\* the effect on [requests, optimisticallyClearedQueue]: the optimistic state
\* is cleared when the requests given show no pending request
clearOptimisticState(v) ==
    IF v.optimisticallyClearedQueue /\ pendingRequests(v.requests) = {}
    THEN [v EXCEPT !.optimisticallyClearedQueue = FALSE]
    ELSE v

\* displayRequests: empty while the queue is optimistically cleared
displayRequests(v) ==
    IF v.optimisticallyClearedQueue THEN {} ELSE pendingRequests(v.requests)

\* handleResetQueue() up to the awaited onResetQueue()
handleResetQueue(v) ==
    clearOptimisticState(
        [v EXCEPT !.optimisticallyClearedQueue = TRUE,
                  !.isResetting = TRUE,
                  !.reset = "sent"])

\* handleResetQueue() after the await: the optimistic state is kept on
\* success and reverted when onResetQueue() threw
handleResetQueueResume(v, threw) ==
    clearOptimisticState(
        [v EXCEPT !.optimisticallyClearedQueue = IF threw THEN FALSE ELSE @,
                  !.isResetting = FALSE,
                  !.reset = "idle"])

\* the Clear Queue button (disabled while resetting or with nothing displayed)
RvHandleResetQueue ==
    /\ ~rv.isResetting
    /\ displayRequests(rv) # {}
    /\ rv' = handleResetQueue(rv)
    /\ UNCHANGED besidesRv

\* the data service marks every pending request as played
RvDataServiceResets ==
    /\ rv.reset = "sent"
    /\ rv' = [rv EXCEPT
                 !.reset = "applied",
                 !.table = [i \in QueuedIds |->
                               IF @[i] = "pending" THEN "played" ELSE @[i]]]
    /\ UNCHANGED besidesRv

\* onResetQueue() returns after the reset was applied, or throws
RvResetReturns ==
    \E threw \in BOOLEAN :
        /\ rv.reset = (IF threw THEN "sent" ELSE "applied")
        /\ rv' = handleResetQueueResume(rv, threw)
        /\ UNCHANGED besidesRv

\* a user submits a request
RvSubmitRequest ==
    \E i \in QueuedIds :
        /\ rv.table[i] = "absent"
        /\ rv' = [rv EXCEPT !.table[i] = "pending"]
        /\ UNCHANGED besidesRv

\* the request sync delivers the table as the requests of the view
RvRequestsDelivered ==
    /\ rv.requests # rv.table
    /\ rv' = clearOptimisticState([rv EXCEPT !.requests = rv.table])
    /\ UNCHANGED besidesRv

----------------------------------------------------------------------------
(* useConnectionHealth *)

\* number of reconnect() calls of the health check pending at a time
MaxHealthReconnects == 2
\* number of reconnections the health check starts
MaxHealthAttempts == 3

ChInit ==
    [ \* React state
      status |-> "good",
      reconnectAttempts |-> 0,
      isReconnecting |-> FALSE,
      \* the isReconnecting the interval callback reads: the effect that
      \* creates the interval has no dependencies, so its closure keeps the
      \* value of the first render
      seenIsReconnecting |-> FALSE,
      \* runtime
      age |-> "fresh",             \* now - lastUpdateTimeRef.current: fresh,
                                   \* over15 (seconds) or over30
      pendingAuto |-> 0,           \* reconnect() calls of the health check
                                   \* that have not settled
      pendingManual |-> 0 ]        \* reconnect() calls of manualReconnect
                                   \* that have not settled

\* the callback of the healthCheck interval
healthCheck(h) ==
    IF h.age = "fresh" THEN [h EXCEPT !.status = "good"]
    ELSE IF h.age = "over30" /\ ~h.seenIsReconnecting
    THEN [h EXCEPT !.status = "poor",
                   !.isReconnecting = TRUE,
                   !.pendingAuto = @ + 1,
                   !.reconnectAttempts = @ + 1]
    ELSE [h EXCEPT !.status = "poor"]

\* manualReconnect() up to the awaited reconnect()
manualReconnect(h) ==
    IF h.isReconnecting THEN h
    ELSE [h EXCEPT !.isReconnecting = TRUE, !.pendingManual = @ + 1]

\* reconnect() settles: the then/catch callbacks of the health check, or the
\* rest of manualReconnect
reconnectSettled(h, manual, rejected) ==
    IF manual
    THEN [h EXCEPT !.pendingManual = @ - 1,
                   !.status = IF rejected THEN @ ELSE "good",
                   !.isReconnecting = FALSE]
    ELSE [h EXCEPT !.pendingAuto = @ - 1, !.isReconnecting = FALSE]

\* handleConnectionChange(state), the hook's connection listener
handleConnectionChange(h, state) ==
    [h EXCEPT !.status = CASE state = "connected" -> "good"
                           [] state = "disconnected" -> "disconnected"
                           [] state = "error" -> "poor"
                           [] OTHER -> @]

\* time passes without a registered update
ChTimePasses ==
    /\ hc.age # "over30"
    /\ hc' = [hc EXCEPT !.age = IF @ = "fresh" THEN "over15" ELSE "over30"]
    /\ UNCHANGED besidesHc

\* registerUpdate()
ChRegisterUpdate ==
    /\ hc' = [hc EXCEPT !.age = "fresh", !.status = "good"]
    /\ UNCHANGED besidesHc

\* the healthCheck interval ticks
ChHealthCheck ==
    /\ hc.pendingAuto < MaxHealthReconnects
    /\ hc.reconnectAttempts < MaxHealthAttempts
    /\ hc' = healthCheck(hc)
    /\ UNCHANGED besidesHc

\* the consumer calls reconnect (manualReconnect)
ChManualReconnect ==
    /\ hc' = manualReconnect(hc)
    /\ UNCHANGED besidesHc

\* a reconnect() call of the hook resolves or rejects
ChReconnectSettles ==
    \E manual, rejected \in BOOLEAN :
        /\ IF manual THEN hc.pendingManual > 0 ELSE hc.pendingAuto > 0
        /\ hc' = reconnectSettled(hc, manual, rejected)
        /\ UNCHANGED besidesHc

\* the manager broadcasts a status to the hook's listener
ChConnectionChange ==
    \E state \in {"connecting", "connected", "disconnected", "error"} :
        /\ hc' = handleConnectionChange(hc, state)
        /\ UNCHANGED besidesHc

----------------------------------------------------------------------------
(* Specifications *)

\* the instances that take no step in a specification stay as constructed
Init ==
    /\ mgr = MgrInit /\ rs = RsInit("block") /\ sl = SlInit /\ qv = QvInit
    /\ rv = RvInit /\ hc = ChInit

\* the coalescer and the registry: subscriptions are opened, deliver bursts of
\* events and are removed, one by one or by destroy()
CoalesceNext ==
    \/ CallCreateSubscription
    \/ CallRemoveSubscription
    \/ UnsubscribeResolves
    \/ ChannelSubscribed
    \/ ChannelEvent
    \/ UpdateTimeoutFires
    \/ CallDestroy

SpecCoalesce == Init /\ [][CoalesceNext]_vars

\* the first createSubscription call of a consumer
CallFirstSubscription ==
    /\ mgr.channels = << >>
    /\ CallCreateSubscription

\* the coalescer on its clock, for one subscription: events arrive at chosen
\* times and every timer fires when it is due
DebounceNext ==
    \/ CallFirstSubscription
    \/ ChannelSubscribed
    \/ ChannelEvent
    \/ DebounceTick
    \/ UpdateTimeoutDue

SpecDebounce == Init /\ [][DebounceNext]_vars

\* connection health and reconnection
ReconnectNext ==
    \/ CallInit
    \/ HeartbeatTick
    \/ HeartbeatReturns
    \/ NetworkOnline
    \/ NetworkOffline
    \/ ReconnectTimeoutFires
    \/ CallReconnect
    \/ ReconnectPingReturns
    \/ CallDestroy

SpecReconnect == Init /\ [][ReconnectNext]_vars

\* connection listeners: consumers register and unregister listeners while
\* the manager broadcasts its status changes
ListenersNext ==
    \/ CallInit
    \/ HeartbeatTick
    \/ HeartbeatReturns
    \/ NetworkOffline
    \/ ReconnectTimeoutFires
    \/ CallReconnect
    \/ ReconnectPingReturns
    \/ CallAddConnectionListener
    \/ CallRemoveConnectionListener

SpecListeners == Init /\ [][ListenersNext]_vars

\* the registry across reconnections: subscriptions are opened and removed
\* while channels fail and consumers call reconnect()
RegistryNext ==
    \/ CallCreateSubscription
    \/ CallRemoveSubscription
    \/ UnsubscribeResolves
    \/ ChannelSubscribed
    \/ ChannelError
    \/ ChannelRetryFires
    \/ CallReconnect
    \/ ReconnectPingReturns

SpecRegistry == Init /\ [][RegistryNext]_vars

\* table changes fanned out to the channels of the registry, between manual
\* reconnections
FanoutNext ==
    \/ CallCreateSubscription
    \/ ChannelSubscribed
    \/ CallReconnect
    \/ ReconnectPingReturns
    \/ TableChange
    \/ UpdateTimeoutFires

SpecFanout == Init /\ [][FanoutNext]_vars

\* channel errors and the per-channel retry
RetryNext ==
    \/ CallCreateSubscription
    \/ CallRemoveSubscription
    \/ UnsubscribeResolves
    \/ ChannelSubscribed
    \/ ChannelError
    \/ ChannelRetryFires
    \/ ChannelEvent
    \/ UpdateTimeoutFires

SpecRetry == Init /\ [][RetryNext]_vars

\* the request sync hook: fetches, their guards, the cache and the clock
FetchInit ==
    /\ mgr = MgrInit /\ sl = SlInit /\ qv = QvInit /\ rv = RvInit
    /\ hc = ChInit
    /\ \E scope \in SignalScopes : rs = RsInit(scope)

FetchNext ==
    \/ Mount
    \/ Unmount
    \/ InitializeSyncResumes
    \/ UnsubscribeResolves
    \/ CallRefetch
    \/ HandleOnline
    \/ HandleOffline
    \/ RealtimeUpdate
    \/ FetchTimeoutFires
    \/ RefreshIntervalTick
    \/ QueryReturns
    \/ Tick

SpecFetch == FetchInit /\ [][FetchNext]_vars

\* the request sync hook with re-runs of its subscription effect: the state
\* changes of the hook change fetchRequests and with it the effect's
\* dependencies
RerunNext ==
    \/ Mount
    \/ EffectReruns
    \/ HandleOnline
    \/ HandleOffline
    \/ RefreshIntervalTick
    \/ FetchTimeoutFires
    \/ QueryReturns
    \/ Tick

SpecRerun == FetchInit /\ [][RerunNext]_vars

\* the request sync hook over the manager: the subscription effect, its
\* cleanup and the channels of the hook's two subscriptions
HookNext ==
    \/ Mount
    \/ Unmount
    \/ InitializeSyncResumes
    \/ UnsubscribeResolves
    \/ ChannelSubscribed
    \/ ChannelEvent
    \/ UpdateTimeoutFires
    \/ FetchTimeoutFires
    \/ QueryReturns

SpecHook == FetchInit /\ [][HookNext]_vars

\* the set-list hook: fetches and their retries
SetListNext ==
    \/ SlMount
    \/ SlUnmount
    \/ UnsubscribeResolves
    \/ SlRealtimeUpdate
    \/ SlRefresh
    \/ SlIntervalTick
    \/ SlQueryReturns
    \/ SlRetryFires

SpecSetList == Init /\ [][SetListNext]_vars

\* the queue view: optimistic mutations and the refreshes that confirm or
\* revert them
QueueNext ==
    \/ QvMount
    \/ QvUnmount
    \/ QvHandleMutation
    \/ QvMutationReturns
    \/ QvDataServiceReads
    \/ QvQueryReturns
    \/ QvServerChange
    \/ QvSubscriptionStatus
    \/ QvResubscribeFires
    \/ QvMonitorTick
    \/ QvRealtimeEvent
    \/ QvEventTimerFires
    \/ QvRefreshTimerFires
    \/ QvForceRefresh
    \/ QvReconnect

SpecQueue == Init /\ [][QueueNext]_vars

\* the mutation handlers of the queue view and the refreshes they start
MutationNext ==
    \/ QvMount
    \/ QvHandleMutation
    \/ QvMutationReturns
    \/ QvDataServiceReads
    \/ QvQueryReturns

SpecMutation == Init /\ [][MutationNext]_vars

\* the queue view when every remote operation succeeds and no other client
\* changes the list: the refreshes that confirm the optimistic values
ConfirmNext ==
    \/ QvMount
    \/ QvHandleMutation
    \/ QvMutationSucceeds
    \/ QvDataServiceReads
    \/ QvQueryReturns
    \/ QvRefreshTimerFires
    \/ QvForceRefresh

SpecConfirm == Init /\ [][ConfirmNext]_vars

\* the mounted hook receiving change events: every timer set fires and every
\* query is executed and returns, while nothing obliges the data service to
\* change again or the channel to report a status
EventsNext ==
    \/ QvMount
    \/ QvSubscriptionStatus
    \/ QvResubscribeFires
    \/ QvServerChange
    \/ QvRealtimeEvent
    \/ QvEventTimerFires
    \/ QvDataServiceReads
    \/ QvQueryReturns

\* the queue reset: the reset is applied or fails, it returns, and the
\* request sync keeps delivering the table, while nothing obliges users to
\* submit requests or the performer to reset
ResetNext ==
    \/ RvSubmitRequest
    \/ RvRequestsDelivered
    \/ RvHandleResetQueue
    \/ RvDataServiceResets
    \/ RvResetReturns

SpecReset ==
    /\ Init
    /\ [][ResetNext]_vars
    /\ WF_vars(RvRequestsDelivered)
    /\ WF_vars(RvResetReturns)

\* the connection health hook: its interval, its listener and the
\* reconnections it starts
HealthNext ==
    \/ ChTimePasses
    \/ ChRegisterUpdate
    \/ ChHealthCheck
    \/ ChManualReconnect
    \/ ChReconnectSettles
    \/ ChConnectionChange

SpecHealth == Init /\ [][HealthNext]_vars

SpecEvents ==
    /\ Init
    /\ [][EventsNext]_vars
    /\ WF_vars(QvResubscribeFires)
    /\ WF_vars(QvEventTimerFires)
    /\ WF_vars(QvDataServiceReads)
    /\ WF_vars(QvQueryReturns)

----------------------------------------------------------------------------
(* Claims about EnhancedRealtimeManager *)

LiveUpdateTimers(c) == {t \in mgr.updateTimers : t.channelId = c}

\* C1: every burst of change events on a subscription (each event arriving
\* while the timer of the previous one is pending) leads to one call of the
\* callback: while the burst is open exactly one timer is pending for the
\* channel and it carries the payload of the last event, the callback is
\* never invoked a second time for a burst, and never with another payload
\* than that of the last event.
C1_Coalescing ==
    \A c \in ChannelIds(mgr) :
        /\ ~mgr.hist[c].extraCall
        /\ ~mgr.hist[c].stale
        /\ Cardinality(LiveUpdateTimers(c)) = (IF mgr.hist[c].open THEN 1 ELSE 0)
        /\ \A t \in LiveUpdateTimers(c) : t.payload = mgr.hist[c].lastEvent

\* a burst of at least two events was delivered by one call
C1_Witness ==
    \E c \in ChannelIds(mgr) :
        /\ mgr.hist[c].merged
        /\ mgr.hist[c].delivered
        /\ ~mgr.hist[c].open

\* C2: once removeSubscription(id) has been called, the callback of
\* subscription id is never invoked again (no coalescing timer of id fires).
C2_NoCallAfterRemove ==
    [][\A t \in mgr.updateTimers :
          t.channelId \in mgr.removeCalled => mgr' # onUpdateTimeout(mgr, t)]_vars

\* C5: attempt n waits 1000 * 2^n ms (n = 0..4), and once the attempts are
\* exhausted the connection status is 'error'.
C5_BackoffThenError ==
    /\ \A t \in BagToSet(mgr.reconnectTimers) :
          /\ t.attempt \in 1..maxReconnectAttempts
          /\ t.delay = 1000 * Pow2(t.attempt - 1)
    /\ mgr.exhausted => mgr.connectionStatus = "error"

\* the steps taken by a timer, a window handler or a channel callback of the
\* manager (not by a call of one of its consumers)
ManagerHandlerStep ==
    \/ HeartbeatTick
    \/ HeartbeatReturns
    \/ UpdateTimeoutFires
    \/ ChannelRetryFires
    \/ ReconnectTimeoutFires
    \/ NetworkOnline
    \/ NetworkOffline
    \/ ChannelSubscribed
    \/ ChannelError
    \/ ChannelEvent

\* C7: after destroy() (and until the manager is initialised again) no
\* heartbeat tick, timer, online/offline handler or channel callback changes
\* the manager's state, schedules a timer or invokes a consumer callback or a
\* connection listener, and once the unsubscribe calls of destroy() have
\* resolved no channel is subscribed.
C7_QuietAfterDestroy ==
    [][mgr.destroyed =>
          /\ ManagerHandlerStep =>
                /\ mgr'.connectionStatus = mgr.connectionStatus
                /\ mgr'.reconnectAttempts = mgr.reconnectAttempts
                /\ mgr'.activeChannels = mgr.activeChannels
                /\ mgr'.channelRetries = mgr.channelRetries
                /\ mgr'.reconnectTimers = mgr.reconnectTimers
                /\ mgr'.retryTimers = mgr.retryTimers
                /\ mgr'.updateTimers = mgr.updateTimers
                /\ mgr'.lastBroadcast = mgr.lastBroadcast
                /\ mgr'.heard = mgr.heard
          /\ (mgr'.destroyed /\ mgr'.removals = {}) =>
                \A c \in ChannelIds(mgr') :
                    mgr'.channels[c].state = "closed"]_vars

\* C9: the k-th consecutive retry of a subscription whose channel reports
\* CHANNEL_ERROR waits 2000 * 2^(k-1) ms, and there are at most 3 of them.
C9_ChannelRetryBound ==
    \A t \in BagToSet(mgr.retryTimers) :
        /\ t.ordinal <= ChannelRetryLimit
        /\ t.delay = ChannelRetryBase * Pow2(t.ordinal - 1)

\* a reconnection completes: the timer callback of attemptReconnection or
\* reconnect() after its ping
ReconnectionCompletes == ReconnectTimeoutFires \/ ReconnectPingReturns

\* the channels of consumer call root that are subscribed or subscribing
OpenChannels(s, root) ==
    {c \in ChannelIds(s) : /\ s.channels[c].root = root
                           /\ s.channels[c].state \in {"joining", "joined"}}

\* C21: when a reconnection completes, every subscription the registry held
\* has exactly one open channel delivering events to its callback.
C21_OneChannelPerSubscription ==
    [][ReconnectionCompletes =>
          \A c \in DOMAIN mgr.activeChannels :
              Cardinality(OpenChannels(mgr', mgr.channels[c].root)) = 1]_vars

\* the channel-retry timers of consumer call root
RetryTimersOf(s, root) == {t \in BagToSet(s.retryTimers) : t.root = root}

\* C22: when a reconnection completes, every subscription the registry held
\* is still known to the registry or has its retry scheduled, also when its
\* re-open failed, and the status is 'connected'.
C22_FailedReopenKept ==
    [][ReconnectionCompletes =>
          /\ mgr'.connectionStatus = "connected"
          /\ \A c \in DOMAIN mgr.activeChannels :
                \/ \E d \in DOMAIN mgr'.activeChannels :
                      mgr'.channels[d].root = mgr.channels[c].root
                \/ RetryTimersOf(mgr', mgr.channels[c].root) # {}]_vars

\* C23: addConnectionListener(fn) calls fn exactly once, with the connection
\* status of that moment, and fn is registered afterwards also when it threw.
C23_ListenerGreeted ==
    [][CallAddConnectionListener =>
          \E l \in Listeners :
              /\ l \notin Range(mgr.connectionListeners)
              /\ l \in Range(mgr'.connectionListeners)
              /\ mgr'.audience = <<l>>
              /\ mgr'.heard[l] = mgr.connectionStatus]_vars

\* a listener was added after a broadcast of another status than the
\* manager's own
C23_Witness ==
    /\ "lsA" \in Range(mgr.connectionListeners)
    /\ mgr.audience = <<"lsA">>
    /\ mgr.snapshot = <<"lsA">>
    /\ mgr.heard["lsA"] = mgr.connectionStatus
    /\ mgr.lastBroadcast \notin {"none", mgr.connectionStatus}

\* C24: a broadcast calls exactly the listeners that were registered when it
\* started, once each and in registration order.
C24_BroadcastSnapshot == mgr.audience = mgr.snapshot

\* C25: the connection status changes only along connecting->connected,
\* connected->disconnected, disconnected->connecting and any->error; in
\* particular it never goes from disconnected to connected without passing
\* through connecting (init() assigns 'connecting' before 'connected').
C25_ConnectingBeforeConnected ==
    [][(/\ mgr.connectionStatus = "disconnected"
        /\ mgr'.connectionStatus = "connected")
          => CallInit]_vars

\* C28: a createSubscription call made while the connection status is not
\* 'connected' does not open its channel yet (subscribe() is deferred until
\* the status is 'connected').
C28_QueuedUntilConnected ==
    [][(/\ CallCreateSubscription
        /\ mgr.connectionStatus # "connected")
          => \A c \in ChannelIds(mgr') \ ChannelIds(mgr) :
                mgr'.channels[c].state \notin {"joining", "joined"}]_vars

\* C29: once removeSubscription(id) has completed for an id createSubscription
\* returned to a consumer, no entry of activeChannels descends from that call
\* and no channel that descends from it is subscribed or subscribing.
C29_RemovedForGood ==
    \A c \in mgr.removeCalled \ mgr.removals :
        mgr.channels[c].root = c =>
            /\ \A d \in DOMAIN mgr.activeChannels : mgr.channels[d].root # c
            /\ OpenChannels(mgr, c) = {}

\* the delay the coalescer is to use for channel c: 100 ms for high, 250 ms
\* for normal and 500 ms for low priority, requests and requesters being
\* high and every other table normal when no priority is given
ExpectedDelay(c) ==
    LET arg == mgr.channels[c].priorityArg
        table == mgr.channels[c].table
    IN  IF arg = "low" THEN 500
        ELSE IF arg = "normal" THEN 250
        ELSE IF arg = "high" THEN 100
        ELSE IF table \in {"requests", "requesters"} THEN 100
        ELSE 250

\* C30: the callback of a burst fires delay(priority) after the last event
\* of the burst, and until then exactly one timer of the channel is pending.
C30_FiresAfterLastEvent ==
    [][\A timer \in mgr.updateTimers :
          /\ Cardinality(LiveUpdateTimers(timer.channelId)) = 1
          /\ mgr' = onUpdateTimeout(mgr, timer) =>
                mgr.now = mgr.hist[timer.channelId].lastEventAt
                          + ExpectedDelay(timer.channelId)]_vars

\* events up to t = 60 ms on a high-priority subscription were delivered by
\* one call at t = 160 ms
C30_Witness ==
    \E c \in ChannelIds(mgr) :
        /\ mgr.channels[c].priority = "high"
        /\ mgr.hist[c].merged
        /\ mgr.hist[c].delivered
        /\ mgr.hist[c].lastEventAt = 60
        /\ mgr.now = 160

\* C31: at most one coalescing timer is pending per subscription id: every
\* live timer of an id is the entry stored for that id in updateTimeouts
\* (all others have fired or were cleared).
C31_OneTimerPerId ==
    \A c \in ChannelIds(mgr) :
        /\ Cardinality(LiveUpdateTimers(c)) <= 1
        /\ \A timer \in LiveUpdateTimers(c) :
              /\ c \in DOMAIN mgr.updateTimeouts
              /\ mgr.updateTimeouts[c] = timer

\* a later event of a burst has replaced the timer of an earlier one, on a
\* subscription whose removal is awaiting its unsubscribe
C31_Witness ==
    \E c \in mgr.removals :
        /\ mgr.hist[c].merged
        /\ mgr.hist[c].open
        /\ LiveUpdateTimers(c) = {mgr.updateTimeouts[c]}

\* C33: the status last broadcast to the connection listeners is the value
\* getConnectionStatus() returns.
C33_BroadcastIsStatus ==
    mgr.lastBroadcast \in {"none", mgr.connectionStatus}

\* C34: at most one reconnection is outstanding at any time: a pending
\* attemptReconnection timer or a reconnect() call that has not completed.
C34_OneReconnection ==
    BagCardinality(mgr.reconnectTimers) + mgr.manualReconnects <= 1

\* the consumer calls of createSubscription whose subscription no completed
\* removeSubscription call has closed
OpenConsumerCalls ==
    {c \in ChannelIds(mgr) :
        /\ mgr.channels[c].root = c
        /\ c \notin mgr.removeCalled \ mgr.removals}

\* C35: the registry never holds more entries than there are consumer
\* createSubscription calls not yet closed.
C35_RegistryBounded ==
    Cardinality(DOMAIN mgr.activeChannels) <= Cardinality(OpenConsumerCalls)

\* C36: one change of a table invokes the callback of each consumer
\* subscription at most once, whatever reconnections came before.
C36_OneCallPerChange == ~mgr.duplicate

\* C20: once reconnectAttempts has reached maxReconnectAttempts, a window
\* 'online' event or a completed reconnect() leaves the counter restarted,
\* so that attemptReconnection schedules attempts again.
C20_RestartAfterExhaustion ==
    [][(/\ NetworkOnline \/ ReconnectPingReturns
        /\ mgr.reconnectAttempts >= maxReconnectAttempts)
          => mgr'.reconnectAttempts < maxReconnectAttempts]_vars

----------------------------------------------------------------------------
(* Claims about useRequestSync *)

\* C3: at most one invocation of fetchRequests has a network query
\* outstanding at any time, and while a query is outstanding the in-progress
\* flag is set, so that a call arriving meanwhile returns without a query.
C3_SingleFlight ==
    /\ Cardinality(rs.queries) <= 1
    /\ rs.queries # {} => rs.fetchInProgressRef

\* a call arrived while a query was outstanding and returned at the guard
C3_Witness == rs.skipped /\ Cardinality(rs.queries) = 1

\* C37: the in-progress flag is set only while an invocation of fetchRequests
\* awaits its query: every exit of an invocation clears it.
C37_FlagOnlyInFlight == rs.fetchInProgressRef => rs.queries # {}

\* a fetch has failed, its invocation has ended with the flag cleared and the
\* retry it scheduled is pending
C37_Witness ==
    /\ rs.error
    /\ ~rs.fetchInProgressRef
    /\ rs.queries = {}
    /\ rs.fetchTimeoutRef # NoTimer
    /\ rs.fetchTimeoutRef.kind = "retry"

\* the queries a step issues
IssuedQueries == {q \in rs'.queries : q.current /\ ~q.aborted /\ q \notin rs.queries}

\* C4: a call with bypassCache = false issues a network query only if no
\* query of such a call was issued less than 2000 ms before.
C4_RateLimit ==
    [][\A q \in IssuedQueries :
          (~q.bypassCache /\ rs.lastPlainQueryAt # 0)
              => q.now - rs.lastPlainQueryAt >= 2000]_vars

\* a call with bypassCache = false was refused less than 2000 ms after the
\* query of another such call
C4_Witness ==
    /\ rs.lastPlainQueryAt # 0
    /\ rs.rateLimitedAt >= rs.lastPlainQueryAt
    /\ rs.rateLimitedAt - rs.lastPlainQueryAt < 2000

\* C8: once the cleanup of the hook has run at unmount, onUpdate delivers
\* nothing more, no channel is opened for the hook, and when no removal is
\* pending no subscription with the hook's callback is registered.
C8_Teardown ==
    [][rs.unmounted =>
         /\ rs'.delivered = rs.delivered
         /\ Len(mgr'.channels) = Len(mgr.channels)
         /\ mgr'.removals = {} =>
               \A c \in DOMAIN mgr'.activeChannels :
                   mgr'.activeChannels[c].callback # HookCallback]_vars

\* a step in which fetchRequests is called with bypassCache = false: by the
\* body of the subscription effect or by the refresh interval
PlainFetchCall == Mount \/ EffectReruns \/ RefreshIntervalTick

\* a cached snapshot exists and the last update is less than 5000 ms ago
FreshSnapshot ==
    rs.cache # NoData /\ rs.now - rs.lastUpdateTime < CacheFreshMs

\* C12: a call of fetchRequests with bypassCache = false made while a cached
\* snapshot younger than 5000 ms exists issues no network query.
C12_CacheFirst ==
    [][(PlainFetchCall /\ FreshSnapshot) => IssuedQueries = {}]_vars

\* a step in which fetchRequests is called with bypassCache = true: refetch(),
\* handleOnline, a high-priority change, or the timer of fetchTimeoutRef
BypassFetchCall ==
    \/ CallRefetch
    \/ HandleOnline
    \/ RealtimeUpdate /\ rs' = handleRealtimeUpdate(rs, "p1")
    \/ FetchTimeoutFires /\ (rs.fetchTimeoutRef.kind = "refresh" \/ rs.mountedRef)

C14_RateLimitedServedFromCache ==
    [][(/\ PlainFetchCall
        /\ ~rs.fetchInProgressRef
        /\ rs.now - rs.lastFetchTimeRef < RateLimitMs
        /\ rs.cache # NoData)
          => /\ rs'.deliveredAt = rs.now
             /\ rs'.delivered = rs.cache]_vars

\* C15: a call of fetchRequests made while a query is outstanding aborts
\* that query and issues its own, so that the latest call delivers.
C15_LatestWins ==
    [][(/\ BypassFetchCall
        /\ \E q \in rs.queries : ~q.aborted)
          => /\ \A q \in rs.queries \cap rs'.queries : q.aborted
             /\ IssuedQueries # {}]_vars

\* a step in which the query of a fetch of the mounted hook returns an error
\* (the query was not aborted)
FetchFails ==
    \E q \in rs.queries :
        /\ ~q.aborted
        /\ rs.mountedRef
        /\ rs' = fetchResume(rs, q, "error")

C17_SuccessWritesThrough ==
    [][\A q \in rs.queries, data \in Data :
          (/\ ~q.aborted
           /\ rs.mountedRef
           /\ rs' = fetchResume(rs, q, data))
             => /\ rs'.cache = data
                /\ rs'.delivered = data
                /\ rs'.deliveredAt = rs.now
                /\ rs'.retryCountRef = 0]_vars

\* a fetch started after the first one succeeded with another collection
C17_Witness ==
    /\ rs.mountedRef
    /\ rs.cache = "d2"
    /\ rs.delivered = "d2"
    /\ rs.deliveredAt = rs.now
    /\ rs.lastUpdateTime > StartOfTime
    /\ rs.retryCountRef = 0

\* C18: no call of fetchRequests ends as a rejected promise: a failing query
\* ends in a delivery, a scheduled retry, a reported error or a silent abort.
C18_NeverUncaught == ~rs.uncaught

----------------------------------------------------------------------------
(* Claims about useSetListSync *)

\* C10: between two successful fetches at most 3 automatic retries are made;
\* the retry made after k earlier ones (k = 0, 1, 2) is scheduled
\* 1000 * 2^k ms after the failure, and after the third retry has failed no
\* retry is pending.
C10_RetryBound ==
    /\ sl.retriesFired <= 3
    /\ sl.fetchTimeoutRef # NoTimer =>
          /\ sl.fetchTimeoutRef.k \in 0..2
          /\ sl.fetchTimeoutRef.delay = 1000 * Pow2(sl.fetchTimeoutRef.k)
    /\ sl.exhausted => sl.fetchTimeoutRef = NoTimer

\* three retries were made, the fetch of the third failed, and no retry is
\* pending although the hook is still mounted
C10_Witness ==
    /\ sl.exhausted
    /\ sl.retriesFired = 3
    /\ sl.mountedRef
    /\ sl.error
    /\ sl.queries = 0

\* C11: when the query of a fetch fails with an error of the data service
\* (not a network failure), the fetch schedules no retry timer.
C11_NoRetryOnQueryError ==
    [][(/\ sl'.queries < sl.queries
        /\ sl'.failure = "queryError")
          => sl'.fetchTimeoutRef = sl.fetchTimeoutRef]_vars

----------------------------------------------------------------------------
(* Claims about the queue view *)

\* C6: when the remote operation of an optimistic mutation was rejected or
\* threw, the list shown once the handler's refresh has succeeded is the list
\* that was shown before the optimistic update (no other mutation and no
\* change of the data service's list having occurred meanwhile).
C6_Rollback ==
    [][(/\ qv.rollback.pending
        /\ qv.rollback.clean
        /\ ~qv'.rollback.pending
        /\ qv'.mountedRef
        /\ ~qv'.error)
          => qv'.requests = qv.rollback.before]_vars

\* the operations in flight on request id
MutationsOf(id) == {m \in qv.mutations : m.id = id}

\* C26: at most one lock or play operation is in flight per request id, and
\* it is in flight exactly while the id's actionStates entry is set.
C26_OneMutationPerId ==
    \A id \in RequestIds :
        /\ Cardinality(MutationsOf(id)) <= 1
        /\ id \in qv.actionStates <=> MutationsOf(id) # {}

\* a second action on a request was refused while the first was in flight
C26_Witness ==
    /\ qv.refused
    /\ \E id \in qv.actionStates : MutationsOf(id) # {}

\* no operation, fetch or refresh timer of the view is pending, and its last
\* fetch succeeded
QvSettled ==
    /\ qv.mounted
    /\ ~qv.isLoading
    /\ ~qv.error
    /\ qv.mutations = {}
    /\ qv.queries = {}
    /\ qv.refreshTimers = 0

\* C27: after an operation has succeeded, the list of the data service is
\* fetched and replaces the optimistic value: when nothing is pending any
\* more, the view shows the list of the data service.
C27_OptimisticReconciled == QvSettled => qv.requests = qv.server

\* C32: every change event received while the hook is mounted is eventually
\* followed by a fetch that starts after the event arrived (or, at least, by
\* a query that reads the list after the event).
C32_EventFetched == qv.unserved ~> ~qv.unserved

----------------------------------------------------------------------------
(* Claims about QueueView *)

\* C38: once the remote reset of handleResetQueue has succeeded, the
\* optimistic 'queue cleared' state eventually returns to false.
C38_ClearedStateReturns ==
    (rv.optimisticallyClearedQueue /\ ~rv.isResetting)
        ~> ~rv.optimisticallyClearedQueue

----------------------------------------------------------------------------
(* Claims about useConnectionHealth *)

\* C39: at most one reconnect() started by useConnectionHealth (by its
\* health check or by manualReconnect) is pending at any time.
C39_OneHealthReconnect == hc.pendingAuto + hc.pendingManual <= 1
====
